---- MODULE Spec2Model ----
(***************************************************************************)
(* A model of the rayt command line program: src/src/cli.rs (argument      *)
(* handling) and src/src/main.rs (the orchestration of the RENDER and      *)
(* GENERATE operations, the step logger and the progress bar).             *)
(*                                                                         *)
(* Strings the code inspects (paths, raw numeric arguments) are sequences  *)
(* of one-character strings, so that ends_with and str::parse are computed *)
(* character by character.                                                 *)
(***************************************************************************)
EXTENDS Integers, Sequences, FiniteSets, TLC

VARIABLES
    pc,            \* position of the main thread in main / run / run_render / run_generate
    matches,       \* the argument values get_cli_config has read from clap's ArgMatches
    cli_result,    \* what get_cli_config returned
    pool,          \* rayon's global thread pool
    step_logger,   \* the StepLogger of the running operation
    stdout,        \* lines printed with println!
    stderr,        \* lines printed with eprintln!
    exit_status,   \* -1 while the process runs, then its exit status
    call_result,   \* what run_render / run_generate returned to run
    run_result,    \* what run returned to main
    trace,         \* history: every progress line and every stage call, in order
    files,         \* files the process has written
    config_save,   \* run_render's local: the loaded scene
    assets,        \* run_render's local: the loaded assets
    config,        \* run_render's local: the compiled render configuration
    progress_bar,  \* run_render's local: the indicatif progress bar
    tasks,         \* render: the per-pixel tasks
    image,         \* render: the pixel buffer, as the number of writes of each cell
    failed,        \* render: the shared failure counter
    render_output  \* run_render's local: what render returned

vars == <<pc, matches, cli_result, pool, step_logger, stdout, stderr, exit_status,
          call_result, run_result, trace, files, config_save, assets, config,
          progress_bar, tasks, image, failed, render_output>>

cliVars == <<matches, cli_result>>
localVars == <<config_save, assets, config, progress_bar, render_output>>
renderVars == <<tasks, image, failed>>
outcomeVars == <<stderr, exit_status, run_result>>

---------------------------------------------------------------------------
(* Bounds of the model *)

\* longest raw numeric argument that is enumerated
MaxRawLen == 2
\* largest image width, height and sample count that is rendered
MaxWidth == 2
MaxHeight == 2
MaxSamples == 2
\* largest number of pixels of an image that is rendered
MaxPixels == 4
\* largest number of threads that is requested for a render on its own
MaxThreads == 2
\* largest number of increments of a progress bar that is followed on its own
MaxIncs == 4
\* largest number of threads rayon picks by itself
MaxCpus == 2

---------------------------------------------------------------------------
(* Values *)

None == [tag |-> "None"]
Ok(v) == [tag |-> "Ok", val |-> v]
Err(e) == [tag |-> "Err", err |-> e]

\* characters raw numeric arguments are made of: digits, the sign str::parse
\* accepts and a character it rejects
Chars == {"0", "1", "+", "-"}
\* the decimal digits of 2^64, one more than the largest u64 and usize
TooLarge ==
    <<"1", "8", "4", "4", "6", "7", "4", "4", "0", "7", "3", "7", "0", "9", "5",
      "5", "1", "6", "1", "6">>
RawStrings == UNION {[1..n -> Chars] : n \in 0..MaxRawLen} \cup {TooLarge}

Yaml == <<".", "y", "a", "m", "l">>
Ppm == <<".", "p", "p", "m">>
ConfigPaths ==
    { <<"s">> \o Yaml, Yaml, <<"s", ".", "t", "x", "t">>,
      <<"y", "a", "m", "l">>, <<"s">> \o Yaml \o Ppm }
OutputPaths ==
    { <<"i">> \o Ppm, Ppm, <<"i", ".", "p", "n", "g">>, <<"i">> \o Ppm \o Yaml }
Subcommands == {"render", "generate"}

\* an argument get_cli_config has not read
Unread == <<"<unread>">>
NoMatches ==
    [config |-> Unread, subcommand |-> Unread, width |-> Unread,
     output_path |-> Unread, rays |-> Unread, threads |-> Unread]

---------------------------------------------------------------------------
(* Unsigned integers *)

\* Unsigned integers wider than an integer of the model are written as their
\* little-endian bytes, as u32::to_le_bytes and u64::to_le_bytes give them.
RECURSIVE to_le_bytes(_, _)
\* the k little-endian bytes of n
to_le_bytes(n, k) ==
    IF k = 0 THEN <<>> ELSE <<n % 256>> \o to_le_bytes(n \div 256, k - 1)

RECURSIVE from_le_bytes(_)
\* the number of the little-endian bytes b, for a number below 2^31
from_le_bytes(b) ==
    IF b = <<>> THEN 0 ELSE Head(b) + 256 * from_le_bytes(Tail(b))

RECURSIVE carry_bytes(_, _, _)
\* the bytes of the number whose k-th base-256 column is cols[k], from column k
\* on, with carry coming in
carry_bytes(cols, k, carry) ==
    IF k > Len(cols) THEN <<>>
    ELSE <<(cols[k] + carry) % 256>>
           \o carry_bytes(cols, k + 1, (cols[k] + carry) \div 256)

---------------------------------------------------------------------------
(* cli.rs *)

\* str::ends_with
ends_with(s, suffix) ==
    /\ Len(s) >= Len(suffix)
    /\ SubSeq(s, Len(s) - Len(suffix) + 1, Len(s)) = suffix

\* char::to_digit(10); -1 stands for no digit
to_digit(c) ==
    CASE c = "0" -> 0 [] c = "1" -> 1 [] c = "2" -> 2 [] c = "3" -> 3
      [] c = "4" -> 4 [] c = "5" -> 5 [] c = "6" -> 6 [] c = "7" -> 7
      [] c = "8" -> 8 [] c = "9" -> 9 [] OTHER -> -1

\* the digit loop of str::parse for a 64-bit unsigned integer type (u64, and
\* usize on a 64-bit target): result = result.checked_mul(10)?.checked_add(digit)?
\* on the eight bytes of result. A character that is no digit is InvalidDigit,
\* a result above 2^64 - 1 is PosOverflow, whichever comes first.
RECURSIVE from_digits(_, _)
from_digits(digits, result) ==
    IF digits = <<>> THEN Ok(from_le_bytes(result))
    ELSE IF to_digit(Head(digits)) < 0 THEN Err("InvalidDigit")
    ELSE LET cols == [k \in 1..9 |->
                        IF k = 1 THEN result[1] * 10 + to_digit(Head(digits))
                        ELSE IF k = 9 THEN 0
                        ELSE result[k] * 10]
             next == carry_bytes(cols, 1, 0)
         IN  IF next[9] # 0 THEN Err("PosOverflow")
             ELSE from_digits(Tail(digits), SubSeq(next, 1, 8))

\* the digit loop of str::parse for at most 16 digits, which cannot overflow
\* 64 bits: result = result * 10 + digit, unchecked
RECURSIVE from_few_digits(_, _)
from_few_digits(digits, result) ==
    IF digits = <<>> THEN Ok(result)
    ELSE IF to_digit(Head(digits)) < 0 THEN Err("InvalidDigit")
    ELSE from_few_digits(Tail(digits), result * 10 + to_digit(Head(digits)))

\* raw.parse::<u64>() and raw.parse::<usize>(): a leading "+" is accepted, a
\* leading "-" is an invalid digit of an unsigned type; the checked loop is
\* taken for more than 16 digits
from_str(src) ==
    IF src = <<>> THEN Err("Empty")
    ELSE IF Len(src) = 1 /\ src[1] \in {"+", "-"} THEN Err("InvalidDigit")
    ELSE LET digits == IF src[1] = "+" THEN Tail(src) ELSE src
         IN  IF Len(digits) <= 16 THEN from_few_digits(digits, 0)
             ELSE from_digits(digits, to_le_bytes(0, 8))

\* parse, naming a fixed argument in the error instead of the failing one
parse_wrong_arg(m, arg) ==
    IF from_str(m[arg]).tag = "Ok"
    THEN Ok(from_str(m[arg]).val)
    ELSE Err([kind |-> "InvalidValue", arg |-> "width", value |-> m[arg]])

\* fn parse<T: FromStr>(matches, arg)
parse(m, arg) ==
    IF from_str(m[arg]).tag = "Ok"
    THEN Ok(from_str(m[arg]).val)
    ELSE Err([kind |-> "InvalidValue", arg |-> arg, value |-> m[arg]])

\* get_cli_config without the ensure! on the output path
get_cli_config_result_no_output_check(m) ==
    IF ~ends_with(m.config, Yaml)
    THEN Err([kind |-> "ConfigPathExt", path |-> m.config])
    ELSE IF m.subcommand = "render"
    THEN IF parse(m, "width").tag = "Err" THEN parse(m, "width")
         ELSE IF parse(m, "rays").tag = "Err" THEN parse(m, "rays")
         ELSE IF parse(m, "threads").tag = "Err" THEN parse(m, "threads")
         ELSE Ok([config_path |-> m.config,
                  command |-> [kind |-> "RENDER",
                               width |-> parse(m, "width").val,
                               output_path |-> m.output_path,
                               num_of_rays |-> parse(m, "rays").val,
                               num_of_threads |-> parse(m, "threads").val]])
    ELSE Ok([config_path |-> m.config, command |-> [kind |-> "GENERATE"]])

\* the value get_cli_config returns for the argument values m (cli.rs 83-117)
get_cli_config_result(m) ==
    IF ~ends_with(m.config, Yaml)
    THEN Err([kind |-> "ConfigPathExt", path |-> m.config])
    ELSE IF m.subcommand = "render"
    THEN IF parse(m, "width").tag = "Err" THEN parse(m, "width")
         ELSE IF parse(m, "rays").tag = "Err" THEN parse(m, "rays")
         ELSE IF parse(m, "threads").tag = "Err" THEN parse(m, "threads")
         ELSE IF ~ends_with(m.output_path, Ppm)
         THEN Err([kind |-> "OutputPathExt", path |-> m.output_path])
         ELSE Ok([config_path |-> m.config,
                  command |-> [kind |-> "RENDER",
                               width |-> parse(m, "width").val,
                               output_path |-> m.output_path,
                               num_of_rays |-> parse(m, "rays").val,
                               num_of_threads |-> parse(m, "threads").val]])
    ELSE Ok([config_path |-> m.config, command |-> [kind |-> "GENERATE"]])

\* get_cli_config returns for the argument values m, which are those it read
Returns(m) ==
    /\ matches' = m
    /\ cli_result' = get_cli_config_result(m)
    /\ pc' = "run"

\* clap's App::get_matches() (cli.rs 27-81) on a command line it does not
\* accept, or one that asks for the help or the version: clap prints the text
\* itself, on stdout for help and version and on stderr for an error, and ends
\* the process; get_cli_config does not return. The kinds are clap's ErrorKind.
get_matches_exits ==
    {[kind |-> k, use_stderr |-> FALSE] : k \in {"HelpDisplayed", "VersionDisplayed"}}
    \cup {[kind |-> k, use_stderr |-> TRUE] :
            k \in {"MissingArgumentOrSubcommand", "MissingRequiredArgument",
                   "UnknownArgument", "UnrecognizedSubcommand", "EmptyValue"}}

\* clap's Error::exit for the error e
clap_exit(e) ==
    /\ pc' = "exited"
    /\ IF e.use_stderr
       THEN /\ stderr' = Append(stderr, [writer |-> "clap", text |-> e.kind])
            /\ exit_status' = 1
            /\ UNCHANGED stdout
       ELSE /\ stdout' = Append(stdout, [kind |-> "clap", text |-> e.kind])
            /\ exit_status' = 0
            /\ UNCHANGED stderr
    /\ UNCHANGED cliVars

\* the argument values of get_cli_config are drawn in the order the code reads
\* them, and an argument the code does not reach stays unread
get_cli_config_returns ==
    /\ \E cp \in ConfigPaths :
         LET m0 == [NoMatches EXCEPT !.config = cp] IN
         IF ~ends_with(cp, Yaml) THEN Returns(m0)
         ELSE \E sc \in Subcommands :
           LET m1 == [m0 EXCEPT !.subcommand = sc] IN
           IF sc = "generate" THEN Returns(m1)
           ELSE \E w \in RawStrings :
             LET m2 == [m1 EXCEPT !.width = w] IN
             IF parse(m2, "width").tag = "Err" THEN Returns(m2)
             ELSE \E o \in OutputPaths, r \in RawStrings :
               LET m3 == [m2 EXCEPT !.output_path = o, !.rays = r] IN
               IF parse(m3, "rays").tag = "Err" THEN Returns(m3)
               ELSE \E t \in RawStrings :
                 Returns([m3 EXCEPT !.threads = t])
    /\ UNCHANGED <<stdout, stderr, exit_status>>

\* pub fn get_cli_config(): get_matches ends the process, or the arguments it
\* accepted are read and checked (the panic of line 120 is behind
\* SubcommandRequiredElseHelp and the two subcommands: clap accepts no other)
get_cli_config ==
    /\ pc = "main"
    /\ \/ \E e \in get_matches_exits : clap_exit(e)
       \/ get_cli_config_returns
    /\ UNCHANGED <<pool, step_logger, call_result, run_result, trace, files,
                   localVars, renderVars>>

---------------------------------------------------------------------------
(* main.rs: errors, the step logger, the progress bar *)

\* messages of the errors the stages outside main.rs and cli.rs return
StageErrors == {"io error", "invalid data"}

\* the conversion of an error into anyhow::Error that the ? operator applies:
\* the error itself, with no context attached
anyhow(e) == [source |-> e, context |-> <<>>]

\* what "{}" prints for an anyhow::Error: the outermost context, or the error
Display(e) == IF e.context = <<>> THEN e.source ELSE Head(e.context)

\* StepLogger::new given one step less than its caller logs
StepLogger_new_one_short(num_of_steps) ==
    [step |-> 1, num_of_steps |-> num_of_steps - 1]

\* StepLogger::new
StepLogger_new(num_of_steps) == [step |-> 1, num_of_steps |-> num_of_steps]

\* StepLogger::log without the increment of step
StepLogger_log_no_increment(l, msg) ==
    [passes |-> l.step <= l.num_of_steps,
     line   |-> [kind |-> "progress", step |-> l.step, total |-> l.num_of_steps,
                 msg |-> msg],
     outcomes |-> {[panics |-> FALSE, logger |-> l]}]

\* StepLogger::log: whether its assertion passes, the line it prints and what
\* self.step += 1 does after the line is printed. step is a u8: on 255 a build
\* with overflow checks panics and a build without them wraps to 0.
StepLogger_log(l, msg) ==
    [passes |-> l.step <= l.num_of_steps,
     line   |-> [kind |-> "progress", step |-> l.step, total |-> l.num_of_steps,
                 msg |-> msg],
     outcomes |-> {[panics |-> FALSE,
                    logger |-> [l EXCEPT !.step = (l.step + 1) % 256]]}
                  \cup IF l.step = 255
                       THEN {[panics |-> TRUE, logger |-> l]}
                       ELSE {}]

LogEvent(l, msg) ==
    [ev |-> "log", step |-> l.step, total |-> l.num_of_steps, msg |-> msg]
CallEvent(stage, r) ==
    [ev |-> "call", stage |-> stage, ok |-> r.tag = "Ok", result |-> r]

\* the exact product of the u32 values a and b: eight bytes
widening_mul(a, b) ==
    LET x == to_le_bytes(a, 4)
        y == to_le_bytes(b, 4)
        term(k, i) == IF k - i \in 0..3 THEN x[i + 1] * y[k - i + 1] ELSE 0
        cols == [k \in 1..8 |->
                   term(k - 1, 0) + term(k - 1, 1) + term(k - 1, 2) + term(k - 1, 3)]
    IN  carry_bytes(cols, 1, 0)

\* a * b in u32 overflows
mul_overflows(a, b) == SubSeq(widening_mul(a, b), 5, 8) # <<0, 0, 0, 0>>

\* u32::wrapping_mul: the low four bytes of the product
wrapping_mul(a, b) == SubSeq(widening_mul(a, b), 1, 4)

\* u64::from on the bytes of a u32
u64_from(b) == b \o <<0, 0, 0, 0>>

RECURSIVE rem_bytes(_, _, _)
\* the remainder by d of the number made of the bytes b[i], b[i+1], ...
rem_bytes(b, i, d) ==
    IF i > Len(b) THEN 0 ELSE (rem_bytes(b, i + 1, d) * 256 + b[i]) % d

\* the integer division of the bytes b by d, for d < 2^23: long division
div_bytes(b, d) ==
    [i \in 1..Len(b) |-> (rem_bytes(b, i + 1, d) * 256 + b[i]) \div d]

\* fn progress_bar(config) where the multiplication does not panic: the bar's
\* length (the eight bytes of a u64), its draw delta, its position, the
\* position of its next redraw and the number of times it was drawn. tick()
\* draws the bar once, set_draw_delta(n) puts the next redraw n steps ahead.
new_progress_bar(c) ==
    LET bar_size == u64_from(wrapping_mul(c.height, c.width))
        draw_delta == from_le_bytes(div_bytes(bar_size, 1000))
    IN  [length |-> bar_size, draw_delta |-> draw_delta, position |-> 0,
         draw_next |-> draw_delta, draws |-> 1]

\* fn progress_bar(config), line 132: config.height() * config.width() is a
\* u32 multiplication. When it overflows, a build with overflow checks panics
\* and a build without them goes on with the wrapped product.
progress_bar_outcomes(c) ==
    {[panics |-> FALSE, bar |-> new_progress_bar(c)]}
    \cup IF mul_overflows(c.height, c.width)
         THEN {[panics |-> TRUE, bar |-> None]}
         ELSE {}

\* indicatif's ProgressBar::inc(1): the position advances, and the bar is
\* redrawn when the position has reached the position of the next redraw
ProgressBar_inc(bar) ==
    LET pos == bar.position + 1
    IN  IF pos >= bar.draw_next
        THEN [bar EXCEPT !.position = pos, !.draw_next = pos + bar.draw_delta,
                         !.draws = @ + 1]
        ELSE [bar EXCEPT !.position = pos]

\* a failed assert! in StepLogger::log: the process panics
Panic ==
    /\ pc' = "exited"
    /\ exit_status' = 101
    /\ stderr' = Append(stderr, [writer |-> "panic", text |-> "assertion failed"])
    /\ UNCHANGED <<cliVars, pool, step_logger, stdout, call_result, run_result,
                   trace, files, localVars, renderVars>>

\* self.step += 1 panics in l.log(msg), after the line was printed
AddPanic(l, msg) ==
    /\ pc' = "exited"
    /\ exit_status' = 101
    /\ stdout' = Append(stdout, StepLogger_log(l, msg).line)
    /\ stderr' = Append(stderr, [writer |-> "panic",
                                 text |-> "attempt to add with overflow"])
    /\ trace' = Append(trace, LogEvent(l, msg))
    /\ UNCHANGED <<cliVars, pool, step_logger, call_result, run_result, files,
                   localVars, renderVars>>

\* l.log(msg) on the step logger l, followed by the rest of the step; a message
\* is the tuple of its fragments
LogThen(l, msg, rest) ==
    IF StepLogger_log(l, msg).passes
    THEN \E o \in StepLogger_log(l, msg).outcomes :
           IF o.panics THEN AddPanic(l, msg)
           ELSE /\ step_logger' = o.logger
                /\ stdout' = Append(stdout, StepLogger_log(l, msg).line)
                /\ rest
    ELSE Panic

\* the ? operator in run_render and run_generate on the result r of a stage:
\* an error is returned to run at once, otherwise execution goes on at next
Question(r, next) ==
    IF r.tag = "Ok"
    THEN pc' = next /\ UNCHANGED call_result
    ELSE pc' = "run_return" /\ call_result' = Err(anyhow(r.err))

---------------------------------------------------------------------------
(* main.rs: run *)

\* fn run, lines 41-63: get_cli_config()? and the match on the command
run ==
    /\ pc = "run"
    \* the argument values are get_cli_config's own: they are kept only for the
    \* state in which its result is inspected
    /\ matches' = NoMatches
    /\ IF cli_result.tag = "Err"
       THEN /\ run_result' = Err(anyhow(cli_result.err))
            /\ pc' = "main_result"
       ELSE /\ pc' = IF cli_result.val.command.kind = "RENDER"
                     THEN "build_global" ELSE "build_scene_config"
            /\ UNCHANGED run_result
    /\ UNCHANGED <<cli_result, pool, step_logger, stdout, stderr, exit_status,
                   call_result, trace, files, localVars, renderVars>>

\* fn run, lines 51-65: the ? on what run_render / run_generate returned
run_return ==
    /\ pc = "run_return"
    /\ run_result' = call_result
    /\ pc' = "main_result"
    /\ UNCHANGED <<cliVars, pool, step_logger, stdout, stderr, exit_status,
                   call_result, trace, files, localVars, renderVars>>

\* fn main: the error is printed once and the process exits with 1, or main
\* returns and the process exits with 0
main ==
    /\ pc = "main_result"
    /\ pc' = "exited"
    /\ IF run_result.tag = "Err"
       THEN /\ stderr' = Append(stderr, [writer |-> "main",
                                         text |-> Display(run_result.err)])
            /\ exit_status' = 1
       ELSE /\ exit_status' = 0
            /\ UNCHANGED stderr
    /\ UNCHANGED <<cliVars, pool, step_logger, stdout, call_result, run_result,
                   trace, files, localVars, renderVars>>

---------------------------------------------------------------------------
(* main.rs: run_render *)

\* rayon's ThreadPoolBuilder::num_threads(n).build_global() on the global pool
\* p: the outcomes. A pool that is set is never replaced; num_threads(0) lets
\* rayon pick the number of threads; spawning the threads may fail.
build_global(p, n) ==
    IF p.configured
    THEN {[result |-> Err("GlobalPoolAlreadyInitialized"), pool |-> p]}
    ELSE {[result |-> Ok("unit"),
           pool |-> [configured |-> TRUE, num_threads |-> n, size |-> k]] :
              k \in IF n = 0 THEN 1..MaxCpus ELSE {n}}
         \cup {[result |-> Err("IOError"), pool |-> p]}

\* the scenes load_config returns; the image height follows from the scene
PersistedScenes == {[height |-> h] : h \in 1..MaxHeight}
load_config_results ==
    {Ok(s) : s \in PersistedScenes} \cup {Err(e) : e \in StageErrors}
Assets_new_results == {Ok([loaded |-> TRUE])} \cup {Err(e) : e \in StageErrors}
validate_results == {Ok("unit")} \cup {Err(e) : e \in StageErrors}
write_image_results == {Ok("unit")} \cup {Err(e) : e \in StageErrors}

\* config_save.into_config(width, num_of_rays, assets)
into_config(scene, width, num_of_rays, a) ==
    [width |-> width, height |-> scene.height, samples_per_pixel |-> num_of_rays]

\* lines 76-82 without the ? on build_global's result
run_render_build_global_unchecked ==
    /\ pc = "build_global"
    /\ \E o \in build_global(pool, cli_result.val.command.num_of_threads) :
         /\ pool' = o.pool
         /\ trace' = Append(trace, CallEvent("build_global", o.result))
         /\ step_logger' = StepLogger_new(7)
         /\ pc' = "load_config"
    /\ UNCHANGED <<cliVars, stdout, outcomeVars, call_result, files, localVars,
                   renderVars>>

\* lines 76-82: the thread pool is built with the requested number of threads,
\* then the clock is read and the step logger is created
run_render_build_global ==
    /\ pc = "build_global"
    /\ \E o \in build_global(pool, cli_result.val.command.num_of_threads) :
         /\ pool' = o.pool
         /\ trace' = Append(trace, CallEvent("build_global", o.result))
         /\ step_logger' = IF o.result.tag = "Ok" THEN StepLogger_new(7)
                           ELSE step_logger
         /\ Question(o.result, "load_config")
    /\ UNCHANGED <<cliVars, stdout, outcomeVars, files, localVars, renderVars>>

\* lines 84-85 with the scene loaded before its progress line is printed
run_render_load_config_call_first ==
    /\ pc = "load_config"
    /\ LogThen(step_logger, <<"Loading image yaml">>,
         \E r \in load_config_results :
           /\ trace' = trace \o <<CallEvent("load_config", r),
                                  LogEvent(step_logger, <<"Loading image yaml">>)>>
           /\ config_save' = IF r.tag = "Ok" THEN r.val ELSE config_save
           /\ Question(r, "load_assets")
           /\ UNCHANGED <<cliVars, pool, outcomeVars, files, assets, config,
                          progress_bar, render_output, renderVars>>)

\* lines 84-85
run_render_load_config ==
    /\ pc = "load_config"
    /\ LogThen(step_logger, <<"Loading image yaml">>,
         \E r \in load_config_results :
           /\ trace' = trace \o <<LogEvent(step_logger, <<"Loading image yaml">>),
                                  CallEvent("load_config", r)>>
           /\ config_save' = IF r.tag = "Ok" THEN r.val ELSE config_save
           /\ Question(r, "load_assets")
           /\ UNCHANGED <<cliVars, pool, outcomeVars, files, assets, config,
                          progress_bar, render_output, renderVars>>)

\* lines 87-88, followed by the compilation instead of the validation
run_render_load_assets_then_compile ==
    /\ pc = "load_assets"
    /\ LogThen(step_logger, <<"Loading assets">>,
         \E r \in Assets_new_results :
           /\ trace' = trace \o <<LogEvent(step_logger, <<"Loading assets">>),
                                  CallEvent("Assets::new", r)>>
           /\ assets' = IF r.tag = "Ok" THEN r.val ELSE assets
           /\ Question(r, "into_config")
           /\ UNCHANGED <<cliVars, pool, outcomeVars, files, config_save, config,
                          progress_bar, render_output, renderVars>>)

\* lines 87-88
run_render_load_assets ==
    /\ pc = "load_assets"
    /\ LogThen(step_logger, <<"Loading assets">>,
         \E r \in Assets_new_results :
           /\ trace' = trace \o <<LogEvent(step_logger, <<"Loading assets">>),
                                  CallEvent("Assets::new", r)>>
           /\ assets' = IF r.tag = "Ok" THEN r.val ELSE assets
           /\ Question(r, "validate")
           /\ UNCHANGED <<cliVars, pool, outcomeVars, files, config_save, config,
                          progress_bar, render_output, renderVars>>)

\* lines 90-91 without the ? on validate's result
run_render_validate_unchecked ==
    /\ pc = "validate"
    /\ LogThen(step_logger, <<"Validating assets">>,
         \E r \in validate_results :
           /\ trace' = trace \o <<LogEvent(step_logger, <<"Validating assets">>),
                                  CallEvent("validate", r)>>
           /\ pc' = "into_config"
           /\ UNCHANGED <<cliVars, pool, outcomeVars, call_result, files, localVars,
                          renderVars>>)

\* lines 90-91
run_render_validate ==
    /\ pc = "validate"
    /\ LogThen(step_logger, <<"Validating assets">>,
         \E r \in validate_results :
           /\ trace' = trace \o <<LogEvent(step_logger, <<"Validating assets">>),
                                  CallEvent("validate", r)>>
           /\ Question(r, "into_config")
           /\ UNCHANGED <<cliVars, pool, outcomeVars, files, localVars, renderVars>>)

\* lines 93-94
run_render_into_config ==
    /\ pc = "into_config"
    /\ LogThen(step_logger, <<"Creating config (constructing BVH)">>,
         /\ trace' = trace \o
               <<LogEvent(step_logger, <<"Creating config (constructing BVH)">>),
                 CallEvent("into_config", Ok("config"))>>
         /\ config' = into_config(config_save, cli_result.val.command.width,
                                  cli_result.val.command.num_of_rays, assets)
         /\ pc' = "render"
         /\ UNCHANGED <<cliVars, pool, outcomeVars, call_result, files, config_save,
                        assets, progress_bar, render_output, renderVars>>)

\* line 97 when the multiplication in progress_bar panics, after the progress
\* line of the stage was printed: the process ends with the status of a panic
OverflowPanic ==
    /\ pc' = "exited"
    /\ exit_status' = 101
    /\ stderr' = Append(stderr, [writer |-> "panic",
                                 text |-> "attempt to multiply with overflow"])
    /\ trace' = Append(trace, LogEvent(step_logger, <<"Rendering">>))
    /\ UNCHANGED <<cliVars, pool, call_result, run_result, files, localVars,
                   renderVars>>

\* the pixels of the image of configuration c
Pixels(c) == 1..(c.width * c.height)

\* lines 96-98: the progress line, the progress bar and the call of render,
\* which hands one task per pixel to the thread pool
run_render_render ==
    /\ pc = "render"
    /\ config.width <= MaxWidth
    /\ config.height <= MaxHeight
    /\ config.samples_per_pixel <= MaxSamples
    /\ config.width * config.height <= MaxPixels
    /\ LogThen(step_logger, <<"Rendering">>,
         \E o \in progress_bar_outcomes(config) :
           IF o.panics THEN OverflowPanic
           ELSE
             /\ trace' = trace \o <<LogEvent(step_logger, <<"Rendering">>),
                                    CallEvent("render", Ok("render_output"))>>
             /\ progress_bar' = o.bar
             /\ tasks' = [p \in Pixels(config) |->
                            [state |-> "pending", samples |-> 0, invalid |-> 0]]
             /\ image' = [p \in Pixels(config) |-> 0]
             /\ failed' = 0
             /\ pc' = "rendering"
             /\ UNCHANGED <<cliVars, pool, outcomeVars, call_result, files,
                            config_save, assets, config, render_output>>)

\* lines 96-97 on their own: the progress line and progress_bar(config)
run_render_progress_bar ==
    /\ pc = "render"
    /\ LogThen(step_logger, <<"Rendering">>,
         \E o \in progress_bar_outcomes(config) :
           IF o.panics THEN OverflowPanic
           ELSE
             /\ trace' = Append(trace, LogEvent(step_logger, <<"Rendering">>))
             /\ progress_bar' = o.bar
             /\ pc' = "bar_attached"
             /\ UNCHANGED <<cliVars, pool, outcomeVars, call_result, files,
                            config_save, assets, config, render_output,
                            renderVars>>)

\* the image of configuration c has at least k pixels
PixelsAtLeast(c, k) ==
    \/ k <= 0
    \/ /\ c.width > 0
       /\ c.height > 0
       /\ IF c.width >= k \/ c.height >= k THEN TRUE
          ELSE c.width * c.height >= k

\* render, seen from the progress bar: one increment for each completed pixel
progress_bar_inc ==
    /\ pc = "bar_attached"
    /\ progress_bar.position < MaxIncs
    /\ PixelsAtLeast(config, progress_bar.position + 1)
    /\ progress_bar' = ProgressBar_inc(progress_bar)
    /\ UNCHANGED <<pc, cliVars, pool, step_logger, stdout, outcomeVars, call_result,
                   trace, files, config_save, assets, config, render_output,
                   renderVars>>

Running == {p \in DOMAIN tasks : tasks[p].state = "running"}

\* render: a worker thread of the pool takes the task of pixel p
task_start(p) ==
    /\ pc = "rendering"
    /\ tasks[p].state = "pending"
    /\ Cardinality(Running) < pool.size
    /\ tasks' = [tasks EXCEPT ![p].state = "running"]
    /\ UNCHANGED <<pc, cliVars, pool, step_logger, stdout, outcomeVars, call_result,
                   trace, files, localVars, image, failed>>

\* task_sample with an increment that is not atomic: the counter is written
\* from the count the task holds itself
task_sample_own_count(p) ==
    /\ pc = "rendering"
    /\ tasks[p].state = "running"
    /\ tasks[p].samples < config.samples_per_pixel
    /\ \E valid \in BOOLEAN :
         /\ tasks' = [tasks EXCEPT ![p].samples = @ + 1,
                                   ![p].invalid = IF valid THEN @ ELSE @ + 1]
         /\ failed' = IF valid THEN failed ELSE tasks[p].invalid + 1
    /\ UNCHANGED <<pc, cliVars, pool, step_logger, stdout, outcomeVars, call_result,
                   trace, files, localVars, image>>

\* task_sample in which an invalid sample stops the task for good
task_sample_aborting(p) ==
    /\ pc = "rendering"
    /\ tasks[p].state = "running"
    /\ tasks[p].samples < config.samples_per_pixel
    /\ \E valid \in BOOLEAN :
         /\ tasks' = [tasks EXCEPT ![p].samples = @ + 1,
                                   ![p].invalid = IF valid THEN @ ELSE @ + 1,
                                   ![p].state = IF valid THEN @ ELSE "aborted"]
         /\ failed' = IF valid THEN failed ELSE failed + 1
    /\ UNCHANGED <<pc, cliVars, pool, step_logger, stdout, outcomeVars, call_result,
                   trace, files, localVars, image>>

\* render: the task of pixel p takes one sample; an invalid sample is discarded
\* and counted with one atomic increment of the failure counter
task_sample(p) ==
    /\ pc = "rendering"
    /\ tasks[p].state = "running"
    /\ tasks[p].samples < config.samples_per_pixel
    /\ \E valid \in BOOLEAN :
         /\ tasks' = [tasks EXCEPT ![p].samples = @ + 1,
                                   ![p].invalid = IF valid THEN @ ELSE @ + 1]
         /\ failed' = IF valid THEN failed ELSE failed + 1
    /\ UNCHANGED <<pc, cliVars, pool, step_logger, stdout, outcomeVars, call_result,
                   trace, files, localVars, image>>

\* task_finish that leaves the task of pixel p running
task_finish_still_running(p) ==
    /\ pc = "rendering"
    /\ tasks[p].state = "running"
    /\ tasks[p].samples = config.samples_per_pixel
    /\ image[p] < 2
    /\ image' = [image EXCEPT ![p] = @ + 1]
    /\ progress_bar' = ProgressBar_inc(progress_bar)
    /\ UNCHANGED <<pc, cliVars, pool, step_logger, stdout, outcomeVars, call_result,
                   trace, files, config_save, assets, config, render_output, failed,
                   tasks>>

\* task_finish that gives a pixel up at its first invalid sample
task_finish_at_first_failure(p) ==
    /\ pc = "rendering"
    /\ tasks[p].state = "running"
    /\ \/ tasks[p].samples = config.samples_per_pixel
       \/ tasks[p].invalid > 0
    /\ tasks' = [tasks EXCEPT ![p].state = "done"]
    /\ image' = [image EXCEPT ![p] = @ + 1]
    /\ progress_bar' = ProgressBar_inc(progress_bar)
    /\ UNCHANGED <<pc, cliVars, pool, step_logger, stdout, outcomeVars, call_result,
                   trace, files, config_save, assets, config, render_output, failed>>

\* render: the task of pixel p has taken all its samples, writes the cell of
\* its pixel and advances the progress bar
task_finish(p) ==
    /\ pc = "rendering"
    /\ tasks[p].state = "running"
    /\ tasks[p].samples = config.samples_per_pixel
    /\ tasks' = [tasks EXCEPT ![p].state = "done"]
    /\ image' = [image EXCEPT ![p] = @ + 1]
    /\ progress_bar' = ProgressBar_inc(progress_bar)
    /\ UNCHANGED <<pc, cliVars, pool, step_logger, stdout, outcomeVars, call_result,
                   trace, files, config_save, assets, config, render_output, failed>>

\* line 98: render returns when every task is done
render_return ==
    /\ pc = "rendering"
    /\ \A p \in DOMAIN tasks : tasks[p].state = "done"
    /\ render_output' = [image |-> image, failed_rays |-> failed]
    /\ pc' = "report"
    /\ UNCHANGED <<cliVars, pool, step_logger, stdout, outcomeVars, call_result,
                   trace, files, config_save, assets, config, progress_bar,
                   renderVars>>

\* lines 100-107: the message of the failed-ray report
report_message(failed_rays) ==
    IF failed_rays > 0
    THEN <<"Checking for errors: found ", failed_rays, " rays with errors">>
    ELSE <<"Checking for errors: no errors">>

\* lines 100-107, with failed rays made an error of run_render
run_render_report_fatal ==
    /\ pc = "report"
    /\ LogThen(step_logger, report_message(render_output.failed_rays),
         /\ trace' = Append(trace, LogEvent(step_logger,
                                   report_message(render_output.failed_rays)))
         /\ IF render_output.failed_rays > 0
            THEN pc' = "run_return" /\ call_result' = Err(anyhow("failed rays"))
            ELSE pc' = "write_image" /\ UNCHANGED call_result
         /\ UNCHANGED <<cliVars, pool, outcomeVars, files, localVars, renderVars>>)

\* lines 100-107
run_render_report ==
    /\ pc = "report"
    /\ LogThen(step_logger, report_message(render_output.failed_rays),
         /\ trace' = Append(trace, LogEvent(step_logger,
                                   report_message(render_output.failed_rays)))
         /\ pc' = "write_image"
         /\ UNCHANGED <<cliVars, pool, outcomeVars, call_result, files, localVars,
                        renderVars>>)

\* lines 109-110: a failed write may leave a partial file
run_render_write_image ==
    /\ pc = "write_image"
    /\ LogThen(step_logger, <<"Printing image">>,
         \E r \in write_image_results :
           /\ trace' = trace \o <<LogEvent(step_logger, <<"Printing image">>),
                                  CallEvent("write_image", r)>>
           /\ \E written \in IF r.tag = "Ok" THEN {TRUE} ELSE BOOLEAN :
                files' = IF written
                         THEN files \cup {cli_result.val.command.output_path}
                         ELSE files
           /\ Question(r, "done_in")
           /\ UNCHANGED <<cliVars, pool, outcomeVars, localVars, renderVars>>)

\* lines 112-114
run_render_done ==
    /\ pc = "done_in"
    /\ stdout' = Append(stdout, [kind |-> "done"])
    /\ call_result' = Ok("unit")
    /\ pc' = "run_return"
    /\ UNCHANGED <<cliVars, pool, step_logger, outcomeVars, trace, files,
                   localVars, renderVars>>

---------------------------------------------------------------------------
(* main.rs: run_generate *)

build_scene_config_results == {Ok("scene")} \cup {Err(e) : e \in StageErrors}
save_config_results == {Ok("unit")} \cup {Err(e) : e \in StageErrors}

\* lines 118-121 without the ? on build_scene_config's result
run_generate_build_scene_config_unchecked ==
    /\ pc = "build_scene_config"
    /\ LogThen(StepLogger_new(2), <<"Generating scene">>,
         \E r \in build_scene_config_results :
           /\ trace' = trace \o
                 <<LogEvent(StepLogger_new(2), <<"Generating scene">>),
                   CallEvent("build_scene_config", r)>>
           /\ config_save' = IF r.tag = "Ok" THEN r.val ELSE config_save
           /\ pc' = "save_config"
           /\ UNCHANGED <<cliVars, pool, outcomeVars, call_result, files, assets,
                          config, progress_bar, render_output, renderVars>>)

\* lines 118-121
run_generate_build_scene_config ==
    /\ pc = "build_scene_config"
    /\ LogThen(StepLogger_new(2), <<"Generating scene">>,
         \E r \in build_scene_config_results :
           /\ trace' = trace \o
                 <<LogEvent(StepLogger_new(2), <<"Generating scene">>),
                   CallEvent("build_scene_config", r)>>
           /\ config_save' = IF r.tag = "Ok" THEN r.val ELSE config_save
           /\ Question(r, "save_config")
           /\ UNCHANGED <<cliVars, pool, outcomeVars, files, assets, config,
                          progress_bar, render_output, renderVars>>)

\* lines 123-125
run_generate_save_config ==
    /\ pc = "save_config"
    /\ LogThen(step_logger, <<"Writing image yaml">>,
         \E r \in save_config_results :
           /\ trace' = trace \o <<LogEvent(step_logger, <<"Writing image yaml">>),
                                  CallEvent("save_config", r)>>
           /\ \E written \in IF r.tag = "Ok" THEN {TRUE} ELSE BOOLEAN :
                files' = IF written THEN files \cup {cli_result.val.config_path}
                         ELSE files
           /\ IF r.tag = "Ok"
              THEN pc' = "run_return" /\ call_result' = Ok("unit")
              ELSE Question(r, "run_return")
           /\ UNCHANGED <<cliVars, pool, outcomeVars, localVars, renderVars>>)

---------------------------------------------------------------------------
(* The process *)

Init ==
    /\ pc = "main"
    /\ matches = NoMatches
    /\ cli_result = None
    /\ pool = [configured |-> FALSE, num_threads |-> 0, size |-> 0]
    /\ step_logger = None
    /\ stdout = <<>>
    /\ stderr = <<>>
    /\ exit_status = -1
    /\ call_result = None
    /\ run_result = None
    /\ trace = <<>>
    /\ files = {}
    /\ config_save = None
    /\ assets = None
    /\ config = None
    /\ progress_bar = None
    /\ tasks = <<>>
    /\ image = <<>>
    /\ failed = 0
    /\ render_output = None

Next ==
    \/ get_cli_config
    \/ run
    \/ run_render_build_global
    \/ run_render_load_config
    \/ run_render_load_assets
    \/ run_render_validate
    \/ run_render_into_config
    \/ run_render_render
    \/ \E p \in DOMAIN tasks : task_start(p)
    \/ \E p \in DOMAIN tasks : task_sample(p)
    \/ \E p \in DOMAIN tasks : task_finish(p)
    \/ render_return
    \/ run_render_report
    \/ run_render_write_image
    \/ run_render_done
    \/ run_generate_build_scene_config
    \/ run_generate_save_config
    \/ run_return
    \/ main

Spec == Init /\ [][Next]_vars

\* The RENDER operation on its own: the state in which run has matched the
\* command of "rayt render --width w --rays s --threads t", for every small
\* width, sample count and thread count
RenderCommands ==
    {[kind |-> "RENDER", width |-> w, output_path |-> <<"i">> \o Ppm,
      num_of_rays |-> s, num_of_threads |-> t] :
        w \in 0..MaxWidth, s \in 0..MaxSamples, t \in 1..MaxThreads}

RenderInit ==
    /\ pc = "build_global"
    /\ matches = NoMatches
    /\ \E c \in RenderCommands :
         cli_result = Ok([config_path |-> <<"s">> \o Yaml, command |-> c])
    /\ pool = [configured |-> FALSE, num_threads |-> 0, size |-> 0]
    /\ step_logger = None
    /\ stdout = <<>>
    /\ stderr = <<>>
    /\ exit_status = -1
    /\ call_result = None
    /\ run_result = None
    /\ trace = <<>>
    /\ files = {}
    /\ config_save = None
    /\ assets = None
    /\ config = None
    /\ progress_bar = None
    /\ tasks = <<>>
    /\ image = <<>>
    /\ failed = 0
    /\ render_output = None

RenderNext ==
    \/ run_render_build_global
    \/ run_render_load_config
    \/ run_render_load_assets
    \/ run_render_validate
    \/ run_render_into_config
    \/ run_render_render
    \/ \E p \in DOMAIN tasks : task_start(p)
    \/ \E p \in DOMAIN tasks : task_sample(p)
    \/ \E p \in DOMAIN tasks : task_finish(p)
    \/ render_return

RenderSpec == RenderInit /\ [][RenderNext]_vars

\* The progress bar on its own: the state in which run_render has compiled the
\* configuration of an image of w by h pixels, for widths and heights around
\* the values at which the draw delta and the u32 product change
BarSides == {0, 1, 2, 10, 40, 50, 1000, 65535, 65536, 65537, 2147483647}

StagesBeforeRender ==
    <<[stage |-> "load_config", msg |-> <<"Loading image yaml">>],
      [stage |-> "Assets::new", msg |-> <<"Loading assets">>],
      [stage |-> "validate", msg |-> <<"Validating assets">>],
      [stage |-> "into_config", msg |-> <<"Creating config (constructing BVH)">>]>>

\* the step logger of run_render before its i-th progress line
LoggerAt(i) == [StepLogger_new(7) EXCEPT !.step = i]

\* the state before line 96 of a RENDER of width w and s samples on t threads
\* whose scene has height h and whose stages so far all succeeded
CompiledState(w, h, s, t) ==
    LET command == [kind |-> "RENDER", width |-> w, output_path |-> <<"i">> \o Ppm,
                    num_of_rays |-> s, num_of_threads |-> t]
        results == <<Ok([height |-> h]), Ok([loaded |-> TRUE]), Ok("unit"),
                     Ok("config")>>
    IN
    /\ pc = "render"
    /\ matches = NoMatches
    /\ cli_result = Ok([config_path |-> <<"s">> \o Yaml, command |-> command])
    /\ pool = [configured |-> TRUE, num_threads |-> t, size |-> t]
    /\ step_logger = LoggerAt(5)
    /\ stdout = [i \in 1..4 |->
                   StepLogger_log(LoggerAt(i), StagesBeforeRender[i].msg).line]
    /\ stderr = <<>>
    /\ exit_status = -1
    /\ call_result = None
    /\ run_result = None
    /\ trace = <<CallEvent("build_global", Ok("unit"))>> \o
               [k \in 1..8 |->
                  IF k % 2 = 1
                  THEN LogEvent(LoggerAt((k + 1) \div 2),
                                StagesBeforeRender[(k + 1) \div 2].msg)
                  ELSE CallEvent(StagesBeforeRender[k \div 2].stage,
                                 results[k \div 2])]
    /\ files = {}
    /\ config_save = [height |-> h]
    /\ assets = [loaded |-> TRUE]
    /\ config = into_config([height |-> h], w, s, [loaded |-> TRUE])
    /\ progress_bar = None
    /\ tasks = <<>>
    /\ image = <<>>
    /\ failed = 0
    /\ render_output = None

BarInit == \E w \in BarSides, h \in BarSides \ {0} : CompiledState(w, h, 1, 1)

BarNext ==
    \/ run_render_progress_bar
    \/ progress_bar_inc

BarSpec == BarInit /\ [][BarNext]_vars

\* the steps of the worker threads inside render, and its return
RenderSteps ==
    \/ \E p \in DOMAIN tasks : task_start(p)
    \/ \E p \in DOMAIN tasks : task_sample(p)
    \/ \E p \in DOMAIN tasks : task_finish(p)
    \/ render_return

\* the same under a fair scheduler: while a step of render can be taken, one
\* is eventually taken (rayon runs every task it was handed, and no worker is
\* suspended forever)
RenderFairSpec == RenderInit /\ [][RenderNext]_vars /\ WF_vars(RenderSteps)

---------------------------------------------------------------------------
(* Vocabulary of the properties *)

IsCall(e) == e.ev = "call"
IsLog(e) == e.ev = "log"
IsProgress(l) == l.kind = "progress"

\* the stage calls made so far, the progress lines printed so far
Calls == SelectSeq(trace, IsCall)
ProgressLines == SelectSeq(stdout, IsProgress)
StageNames(calls) == [i \in 1..Len(calls) |-> calls[i].stage]
Called(stage) == \E i \in 1..Len(Calls) : Calls[i].stage = stage
CalledOk(stage) == \E i \in 1..Len(Calls) : Calls[i].stage = stage /\ Calls[i].ok
CalledErr(stage) == \E i \in 1..Len(Calls) : Calls[i].stage = stage /\ ~Calls[i].ok

IsPrefix(a, b) == Len(a) <= Len(b) /\ a = SubSeq(b, 1, Len(a))

IsRender == cli_result.tag = "Ok" /\ cli_result.val.command.kind = "RENDER"
IsGenerate == cli_result.tag = "Ok" /\ cli_result.val.command.kind = "GENERATE"

\* the calls of the RENDER path and of the GENERATE path, in the order of the code
RenderCalls ==
    <<"build_global", "load_config", "Assets::new", "validate", "into_config",
      "render", "write_image">>
GenerateCalls == <<"build_scene_config", "save_config">>
OperationCalls == IF IsRender THEN RenderCalls ELSE GenerateCalls

\* s ends in suffix: s is some text followed by suffix
HasSuffix(s, suffix) == \E k \in 0..Len(s) : s = SubSeq(s, 1, k) \o suffix

\* s is what an unsigned integer type parses: an optional "+" and then one or
\* more decimal digits
Digits == <<"0", "1", "2", "3", "4", "5", "6", "7", "8", "9">>
IsDigit(c) == \E d \in 1..10 : Digits[d] = c
DigitsOf(s) == IF s # <<>> /\ s[1] = "+" THEN SubSeq(s, 2, Len(s)) ELSE s
IsDecimal(s) ==
    /\ DigitsOf(s) # <<>>
    /\ \A i \in 1..Len(DigitsOf(s)) : IsDigit(DigitsOf(s)[i])

\* the digits d without their leading zeros
RECURSIVE Significant(_)
Significant(d) ==
    IF d # <<>> /\ Head(d) = "0" THEN Significant(Tail(d)) ELSE d

DigitValue(c) == (CHOOSE k \in 1..10 : Digits[k] = c) - 1

\* a is at most b, for two digit sequences of the same length
RECURSIVE AtMost(_, _)
AtMost(a, b) ==
    \/ a = <<>>
    \/ DigitValue(Head(a)) < DigitValue(Head(b))
    \/ Head(a) = Head(b) /\ AtMost(Tail(a), Tail(b))

\* the decimal digits of 2^64 - 1
LargestU64 ==
    <<"1", "8", "4", "4", "6", "7", "4", "4", "0", "7", "3", "7", "0", "9", "5",
      "5", "1", "6", "1", "5">>

\* s denotes a number of a 64-bit unsigned type
IsUnsignedLiteral(s) ==
    /\ IsDecimal(s)
    /\ \/ Len(Significant(DigitsOf(s))) < Len(LargestU64)
       \/ /\ Len(Significant(DigitsOf(s))) = Len(LargestU64)
          /\ AtMost(Significant(DigitsOf(s)), LargestU64)

\* the number an unsigned literal denotes: the sum of digit * 10^position
RECURSIVE Pow10(_)
Pow10(n) == IF n = 0 THEN 1 ELSE 10 * Pow10(n - 1)
RECURSIVE WeightedSum(_, _)
WeightedSum(d, i) ==
    IF i > Len(d) THEN 0
    ELSE DigitValue(d[i]) * Pow10(Len(d) - i)
         + WeightedSum(d, i + 1)
DecimalValue(s) == WeightedSum(DigitsOf(s), 1)

NumericArgs == {"width", "rays", "threads"}

---------------------------------------------------------------------------
(* C1 *)

\* C1: in run_render a stage that returns an error ends the pipeline: the failed
\* call is the last event of the run, run_render returns that very error, render
\* and write_image are called only after every earlier stage succeeded, and
\* after a failed validation there is no render call and no output file.
C1_ErrorAbortsPipeline ==
    IsRender =>
      /\ \A i \in 1..Len(trace) :
           (IsCall(trace[i]) /\ ~trace[i].ok) =>
             /\ i = Len(trace)
             /\ pc \in {"run_return", "main_result", "exited"}
             /\ call_result.tag = "Err"
             /\ call_result.err.source = trace[i].result.err
      /\ \A j \in 1..Len(Calls) :
           /\ Calls[j].stage = RenderCalls[j]
           /\ \A k \in 1..(j - 1) : Calls[k].ok
      /\ CalledErr("validate") => ~Called("render") /\ ~Called("write_image")
      /\ files # {} => Called("write_image") /\ \A k \in 1..6 : Calls[k].ok

C1_Witness ==
    /\ IsRender
    /\ pc = "exited"
    /\ CalledErr("validate")
    /\ files = {}
    /\ Len(Calls) = 4

---------------------------------------------------------------------------
(* C2 *)

\* C2: a process that has ended has status 0 or a non-zero status: 0 exactly when
\* the arguments were accepted and every stage of the operation was called and
\* succeeded, with nothing on the error channel; non-zero otherwise, with exactly
\* one line on the error channel, written by main and showing the error; while
\* the process runs nothing is on the error channel, and no stage is called twice.
C2_ExitContract ==
    /\ pc # "exited" => exit_status = -1 /\ stderr = <<>>
    /\ pc = "exited" =>
         /\ exit_status \in {0, 1}
         /\ exit_status = 0 <=>
              /\ cli_result.tag = "Ok"
              /\ StageNames(Calls) = OperationCalls
              /\ \A i \in 1..Len(Calls) : Calls[i].ok
         /\ exit_status = 0 => stderr = <<>> /\ run_result.tag = "Ok"
         /\ exit_status = 1 =>
              /\ Len(stderr) = 1
              /\ stderr[1].writer = "main"
              /\ run_result.tag = "Err"
              /\ stderr[1].text = run_result.err.source
              /\ run_result.err.source =
                   IF cli_result.tag = "Err" THEN cli_result.err
                   ELSE Calls[Len(Calls)].result.err
    /\ \A i, j \in 1..Len(Calls) : Calls[i].stage = Calls[j].stage => i = j

---------------------------------------------------------------------------
(* C3 *)

\* C3: when get_cli_config has returned, a config path that does not end in
\* .yaml, an output path that does not end in .ppm or a numeric argument that is
\* no unsigned literal means it returned an error; after such an error the pool
\* is never configured, no line is printed, no stage is called and no file is
\* written, and run returns the error; a returned CliConfig has a config path
\* ending in .yaml and, for RENDER, an output path ending in .ppm.
C3_ArgumentsRejectedFirst ==
    /\ ( /\ pc = "run"
         /\ \/ ~HasSuffix(matches.config, Yaml)
            \/ matches.output_path # Unread /\ ~HasSuffix(matches.output_path, Ppm)
            \/ \E a \in NumericArgs :
                 matches[a] # Unread /\ ~IsUnsignedLiteral(matches[a]) )
       => cli_result.tag = "Err"
    /\ cli_result.tag = "Err" =>
         /\ ~pool.configured
         /\ stdout = <<>>
         /\ trace = <<>>
         /\ files = {}
         /\ pc \in {"run", "main_result", "exited"}
         /\ pc # "run" => run_result.tag = "Err" /\ run_result.err.source = cli_result.err
    /\ cli_result.tag = "Ok" =>
         /\ HasSuffix(cli_result.val.config_path, Yaml)
         /\ IsRender => HasSuffix(cli_result.val.command.output_path, Ppm)

C3_Witness ==
    /\ pc = "exited"
    /\ exit_status = 1
    /\ cli_result.tag = "Err"
    /\ cli_result.err.kind = "OutputPathExt"
    /\ cli_result.err.path = <<"i", ".", "p", "n", "g">>

---------------------------------------------------------------------------
(* C4 *)

\* C4: when get_cli_config has returned, a numeric argument it read that is no
\* unsigned literal made it return InvalidValue with that argument's name and
\* its raw string; an InvalidValue error always names a numeric argument and
\* carries its raw string, which is no unsigned literal; and a returned RENDER
\* command holds, for each numeric argument, the number its raw string denotes.
C4_ParseContract ==
    pc = "run" =>
      /\ \A a \in NumericArgs :
           (matches[a] # Unread /\ ~IsUnsignedLiteral(matches[a])) =>
              cli_result = Err([kind |-> "InvalidValue", arg |-> a,
                                value |-> matches[a]])
      /\ (cli_result.tag = "Err" /\ cli_result.err.kind = "InvalidValue") =>
           /\ cli_result.err.arg \in NumericArgs
           /\ cli_result.err.value = matches[cli_result.err.arg]
           /\ ~IsUnsignedLiteral(cli_result.err.value)
      /\ IsRender =>
           /\ \A a \in NumericArgs : IsUnsignedLiteral(matches[a])
           /\ cli_result.val.command.width = DecimalValue(matches.width)
           /\ cli_result.val.command.num_of_rays = DecimalValue(matches.rays)
           /\ cli_result.val.command.num_of_threads = DecimalValue(matches.threads)

C4_Witness ==
    /\ pc = "run"
    /\ cli_result.tag = "Err"
    /\ cli_result.err.kind = "InvalidValue"
    /\ cli_result.err.arg = "rays"
    /\ cli_result.err.value = <<"-", "1">>
    /\ matches.width = <<"+", "1">>

---------------------------------------------------------------------------
(* C5 *)

\* the name of the stage whose call failed
FailedStage == Calls[Len(Calls)].stage

\* C5: when a stage of the RENDER path has failed, the error main prints on the
\* error channel has the name of the failing stage attached: the name is a
\* context of the reported error, or the printed text itself.
C5_StageNameAttached ==
    (pc = "exited" /\ IsRender /\ exit_status = 1) =>
      \/ \E i \in 1..Len(run_result.err.context) :
           run_result.err.context[i] = FailedStage
      \/ stderr[1].text = FailedStage

---------------------------------------------------------------------------
(* C6 *)

\* C6: every RENDER command get_cli_config returns has a thread count of at
\* least 1, so that the pool is never built for a thread count below 1 and no
\* render starts with one.
C6_ThreadCountAtLeastOne ==
    IsRender =>
      /\ cli_result.val.command.num_of_threads >= 1
      /\ pool.configured => pool.num_threads >= 1
      /\ Called("render") => cli_result.val.command.num_of_threads >= 1

---------------------------------------------------------------------------
(* C7 *)

\* the number of progress lines of the operation: StepLogger::new(7) in
\* run_render, StepLogger::new(2) in run_generate
TotalSteps == IF IsRender THEN 7 ELSE 2

\* C7: the k-th progress line of an operation reads [k/N], with N = 7 for RENDER
\* and N = 2 for GENERATE; there are never more than N of them; and an operation
\* that returned Ok has printed exactly N, with failed rays or without.
C7_ProgressNumbering ==
    /\ \A k \in 1..Len(ProgressLines) :
         ProgressLines[k].step = k /\ ProgressLines[k].total = TotalSteps
    /\ Len(ProgressLines) <= TotalSteps
    /\ call_result.tag = "Ok" => Len(ProgressLines) = TotalSteps
    /\ (pc = "exited" /\ exit_status = 0 /\ cli_result.tag = "Ok") =>
         Len(ProgressLines) = TotalSteps
    /\ cli_result.tag # "Ok" => ProgressLines = <<>>

C7_Witness ==
    /\ pc = "exited"
    /\ exit_status = 0
    /\ IsRender
    /\ render_output.failed_rays > 0
    /\ Len(ProgressLines) = 7
    /\ ProgressLines[6].msg[1] = "Checking for errors: found "

---------------------------------------------------------------------------
(* C8 *)

\* the failed-ray counts a render of the configuration can return
FailedRayCounts == 0..(MaxWidth * MaxHeight * MaxSamples)

\* C8: the failed-ray report does not decide the outcome. At the report, every
\* failed-ray count passes the logger's assertion and leaves the same logger as
\* the count at hand; whatever the count, the report is the sixth progress line
\* and is followed by the call of write_image; and a RENDER run that called
\* render ends with status 0 exactly when write_image succeeded.
C8_ReportNeverDecides ==
    /\ pc = "report" =>
         \A f \in FailedRayCounts :
           /\ StepLogger_log(step_logger, report_message(f)).passes
           /\ StepLogger_log(step_logger, report_message(f)).outcomes =
                StepLogger_log(step_logger,
                               report_message(render_output.failed_rays)).outcomes
    /\ (IsRender /\ render_output # None) =>
         /\ pc \in {"report", "write_image", "done_in", "run_return",
                    "main_result", "exited"}
         /\ pc = "report" => Len(ProgressLines) = 5
         /\ pc = "write_image" => Len(ProgressLines) = 6 /\ call_result = None
         /\ pc \in {"done_in", "run_return", "main_result", "exited"} =>
              /\ Len(ProgressLines) = 7
              /\ Called("write_image")
              /\ pc # "done_in" => (call_result.tag = "Ok" <=> CalledOk("write_image"))
         /\ pc = "exited" => (exit_status = 0 <=> CalledOk("write_image"))

C8_Witness ==
    /\ pc = "exited"
    /\ IsRender
    /\ render_output # None
    /\ render_output.failed_rays = 2
    /\ CalledErr("write_image")
    /\ exit_status = 1

---------------------------------------------------------------------------
(* C9 *)

\* the report is the progress line [6/7]
IsReport(e) == IsLog(e) /\ e.step = 6 /\ e.total = 7
IsStage(e) == IsCall(e) \/ IsReport(e)
StageEvents == SelectSeq(trace, IsStage)
StageOrder ==
    <<"build_global", "load_config", "Assets::new", "validate", "into_config",
      "render", "report", "write_image">>
AllTasksDone == \A p \in DOMAIN tasks : tasks[p].state = "done"

\* C9: in a RENDER run the stages are executed in the order thread pool, scene
\* load, asset load, validation, compilation, render, report, image write, each
\* at most once; tasks exist only from the render call on, when the
\* configuration is the compiled one, and it stays that; a task runs only inside
\* the render call; and from the report on every task is done.
C9_StageOrder ==
    IsRender =>
      /\ IsPrefix([i \in 1..Len(StageEvents) |->
                      IF IsCall(StageEvents[i]) THEN StageEvents[i].stage
                      ELSE "report"],
                  StageOrder)
      /\ Called("render") <=> pc \in {"rendering", "report", "write_image", "done_in",
                                      "run_return", "main_result", "exited"}
                              /\ config # None
      /\ ~Called("render") => tasks = <<>> /\ image = <<>> /\ failed = 0
      /\ Called("render") =>
           /\ config = into_config(config_save, cli_result.val.command.width,
                                   cli_result.val.command.num_of_rays, assets)
           /\ DOMAIN tasks = Pixels(config)
      /\ pc # "rendering" => Running = {}
      /\ (pc # "rendering" /\ Called("render")) =>
           /\ AllTasksDone
           /\ render_output # None
           /\ render_output.image = image
           /\ \A p \in DOMAIN image : image[p] = 1

C9_Witness ==
    /\ IsRender
    /\ pc = "write_image"
    /\ Len(tasks) = 2
    /\ AllTasksDone
    /\ pool.size = 2

---------------------------------------------------------------------------
(* C10 *)

\* C10, in the states: the pool is configured exactly when the first stage
\* call of the run, build_global, succeeded, with the requested number of
\* threads; build_global is called at most once and before anything is printed
\* or any other stage is called; a pool that is configured is never rebound by
\* build_global, which then only fails; and after a failed build_global there is
\* no progress line, no step logger and no further stage.
C10_PoolInvariant ==
    /\ pool.configured <=> (Len(Calls) >= 1 /\ Calls[1].stage = "build_global"
                            /\ Calls[1].ok)
    /\ pool.configured =>
         /\ IsRender
         /\ pool.num_threads = cli_result.val.command.num_of_threads
         /\ pool.size >= 1
         /\ \A n \in 0..MaxCpus : \A o \in build_global(pool, n) :
              o.result.tag = "Err" /\ o.pool = pool
    /\ \A i \in 1..Len(trace) :
         (IsCall(trace[i]) /\ trace[i].stage = "build_global") => i = 1
    /\ CalledErr("build_global") =>
         /\ Len(trace) = 1
         /\ stdout = <<>>
         /\ step_logger = None
         /\ files = {}
         /\ call_result.tag = "Err"
         /\ call_result.err.source = Calls[1].result.err

\* C10: the invariant above holds in every state, and no step changes a pool
\* that is configured.
C10_PoolConfiguredOnce ==
    /\ []C10_PoolInvariant
    /\ [][pool.configured => pool' = pool]_vars

C10_Witness ==
    /\ pc = "exited"
    /\ exit_status = 1
    /\ CalledErr("build_global")
    /\ ~pool.configured
    /\ stdout = <<>>

---------------------------------------------------------------------------
(* The render engine: work partitioning, the failure counter, termination *)

RECURSIVE SumOver(_, _)
\* the sum of f[p] over the pixels p of the set S
SumOver(f, S) ==
    IF S = {} THEN 0
    ELSE LET p == CHOOSE q \in S : TRUE IN f[p] + SumOver(f, S \ {p})

\* samples taken so far, and invalid samples met so far, by all tasks
SamplesTaken == SumOver([p \in DOMAIN tasks |-> tasks[p].samples], DOMAIN tasks)
InvalidSamples == SumOver([p \in DOMAIN tasks |-> tasks[p].invalid], DOMAIN tasks)

InRender == pc \in {"rendering", "report"}
TotalSamples == config.width * config.height * config.samples_per_pixel

\* C11: during a render there is exactly one task per pixel of the image, the
\* cell of a pixel has been written once if its task is done and not at all
\* otherwise (so no cell is written twice and no two tasks write one cell), no
\* more tasks run than the pool has threads, and when render returns every cell
\* of the returned image has been written exactly once.
C11_EachPixelOnce ==
    InRender =>
      /\ DOMAIN tasks = Pixels(config)
      /\ DOMAIN image = Pixels(config)
      /\ \A p \in Pixels(config) :
           image[p] = IF tasks[p].state = "done" THEN 1 ELSE 0
      /\ Cardinality(Running) <= pool.size
      /\ pc = "report" =>
           /\ DOMAIN render_output.image = Pixels(config)
           /\ \A p \in Pixels(config) : render_output.image[p] = 1

\* a render of several pixels on several threads has returned
C11_Witness ==
    /\ pc = "report"
    /\ Cardinality(DOMAIN render_output.image) > 2
    /\ pool.size > 1

\* the failure counter is the number of invalid samples met so far, and lies
\* between 0 and width * height * samples_per_pixel
FailureCounterExact ==
    InRender =>
      /\ failed = InvalidSamples
      /\ 0 <= failed
      /\ failed <= SamplesTaken
      /\ SamplesTaken <= TotalSamples
      /\ pc = "report" => render_output.failed_rays = failed

\* C12: the failure counter never decreases, a step changes it by exactly one
\* and only when a task meets an invalid sample, no increment is lost (the
\* counter always equals the number of invalid samples met), and the
\* failed_rays of the returned output is that number, between 0 and
\* width * height * samples_per_pixel.
C12_FailureCounter ==
    /\ []FailureCounterExact
    /\ [][failed' # failed =>
            /\ failed' = failed + 1
            /\ InvalidSamples' = InvalidSamples + 1]_vars

\* a render in which tasks of different pixels met invalid samples has returned
C12_Witness ==
    /\ pc = "report"
    /\ render_output.failed_rays > 1
    /\ pool.size > 1

\* C13: every task takes at most samples_per_pixel samples, a task that is
\* done has taken exactly samples_per_pixel, and when render returns the
\* samples taken are width * height * samples_per_pixel, whatever the number of
\* threads and whether or not samples were invalid.
C13_SamplesConsumed ==
    InRender =>
      /\ \A p \in DOMAIN tasks :
           /\ tasks[p].samples <= config.samples_per_pixel
           /\ tasks[p].state = "done" =>
                tasks[p].samples = config.samples_per_pixel
      /\ SamplesTaken <= TotalSamples
      /\ pc = "report" => SamplesTaken = TotalSamples

\* a render with invalid samples has returned after taking several samples
C13_Witness ==
    /\ pc = "report"
    /\ SamplesTaken > 2
    /\ failed > 0
    /\ failed < SamplesTaken

AllWritten == \A p \in DOMAIN image : image[p] = 1

\* C14: under a fair scheduler a render that has started eventually returns,
\* with every pixel computed, whichever samples are invalid.
C14_RenderReturns ==
    (pc = "rendering") ~> (pc = "report" /\ AllWritten)

\* a render in which every sample was invalid has returned
C14_Witness ==
    /\ pc = "report"
    /\ AllWritten
    /\ failed > 1
    /\ failed = TotalSamples

---------------------------------------------------------------------------
(* Progress lines and the stages they announce *)

\* the progress line of each stage that has one (main.rs 84-109, 120-123)
StageLine(stage) ==
    CASE stage = "load_config" -> <<"Loading image yaml">>
      [] stage = "Assets::new" -> <<"Loading assets">>
      [] stage = "validate" -> <<"Validating assets">>
      [] stage = "into_config" -> <<"Creating config (constructing BVH)">>
      [] stage = "render" -> <<"Rendering">>
      [] stage = "write_image" -> <<"Printing image">>
      [] stage = "build_scene_config" -> <<"Generating scene">>
      [] stage = "save_config" -> <<"Writing image yaml">>

\* C15, as claimed: every stage, the thread-pool configuration included, has
\* its own progress line emitted just before the stage begins executing.
C15_EveryStageLogsFirst ==
    \A i \in 1..Len(trace) :
      IsCall(trace[i]) => i > 1 /\ IsLog(trace[i - 1])

\* C15, amended: every stage except the thread-pool configuration has its own
\* progress line emitted just before the stage begins executing; the
\* thread-pool configuration is the first thing a RENDER does, before the step
\* logger exists and before any progress line.
C15_LoggedStagesLogFirst ==
    \A i \in 1..Len(trace) :
      IsCall(trace[i]) =>
        IF trace[i].stage = "build_global"
        THEN i = 1
        ELSE /\ i > 1
             /\ IsLog(trace[i - 1])
             /\ trace[i - 1].msg = StageLine(trace[i].stage)
             /\ trace[i - 1].step = Cardinality({j \in 1..i : IsLog(trace[j])})

\* a RENDER has run all its stages
C15_Witness ==
    /\ pc = "exited"
    /\ exit_status = 0
    /\ StageNames(Calls) = RenderCalls

---------------------------------------------------------------------------
(* The GENERATE operation *)

\* C16: a GENERATE runs build_scene_config and then save_config and nothing
\* else, with two progress lines at most; save_config is called only after
\* build_scene_config succeeded; a failure of either is what run returns, and
\* the process then exits with 1; the thread pool is never configured, no scene
\* or asset is loaded, nothing is compiled or rendered, and the only file that
\* may be written is the scene file at config_path.
C16_GenerateContract ==
    IsGenerate =>
      /\ IsPrefix(StageNames(Calls), GenerateCalls)
      /\ Called("save_config") => Calls[1].ok
      /\ \A i \in 1..Len(Calls) :
           ~Calls[i].ok =>
             /\ i = Len(Calls)
             /\ call_result = Err(anyhow(Calls[i].result.err))
             /\ pc \in {"main_result", "exited"} => run_result = call_result
             /\ pc = "exited" => exit_status = 1
      /\ (pc = "exited" /\ exit_status = 0) =>
           /\ StageNames(Calls) = GenerateCalls
           /\ \A i \in 1..Len(Calls) : Calls[i].ok
           /\ cli_result.val.config_path \in files
      /\ Len(ProgressLines) <= 2
      /\ step_logger # None => step_logger.num_of_steps = 2
      /\ ~pool.configured
      /\ assets = None /\ config = None /\ progress_bar = None
      /\ tasks = <<>> /\ image = <<>> /\ render_output = None
      /\ files \subseteq {cli_result.val.config_path}
      /\ files # {} => Called("save_config")

\* a GENERATE whose scene was built and could not be saved has exited
C16_Witness ==
    /\ IsGenerate
    /\ pc = "exited"
    /\ CalledOk("build_scene_config")
    /\ CalledErr("save_config")

---------------------------------------------------------------------------
(* The progress bar *)

\* C17: the process never fails on the multiplication in progress_bar, the
\* length of the bar is the exact product of the height and the width of the
\* image, and the position of the bar lies between 0 and that product. (The
\* position only ever changes by ProgressBar_inc, which adds one.)
C17_BarLengthExact ==
    /\ exit_status # 101
    /\ progress_bar # None =>
         /\ progress_bar.length = widening_mul(config.height, config.width)
         /\ progress_bar.position >= 0
         /\ PixelsAtLeast(config, progress_bar.position)

\* C18: the draw delta of the bar is the number of pixels of the image divided
\* by 1000, and the bar is redrawn less often than once per completed pixel:
\* after two or more pixels it has been redrawn fewer times than pixels were
\* completed (the draw of tick() aside).
C18_DrawDeltaCoarse ==
    progress_bar # None =>
      /\ to_le_bytes(progress_bar.draw_delta, 8)
           = div_bytes(widening_mul(config.height, config.width), 1000)
      /\ progress_bar.position > 1 =>
           progress_bar.draws - 1 < progress_bar.position

---------------------------------------------------------------------------
(* The step logger *)

\* the control points at which the next step calls log on step_logger
LogPoints ==
    {"load_config", "load_assets", "validate", "into_config", "render", "report",
     "write_image", "save_config"}

\* C19: the assertion of StepLogger::log never fails: wherever log is about
\* to be called the step is at most num_of_steps, no process ends on the
\* failed assertion, log has been called at most num_of_steps times (once for
\* each progress line printed), and step, one more than the number of calls,
\* is at most num_of_steps + 1 and far below the 255 of a u8, so that
\* self.step += 1 never overflows: no build panics on it and none wraps.
C19_StepAssertionHolds ==
    /\ \A i \in 1..Len(stderr) :
         ~(/\ stderr[i].writer = "panic"
           /\ stderr[i].text \in {"assertion failed", "attempt to add with overflow"})
    /\ pc \in LogPoints =>
         \A o \in StepLogger_log(step_logger, <<"msg">>).outcomes : ~o.panics
    /\ pc \in LogPoints => step_logger.step <= step_logger.num_of_steps
    /\ step_logger # None =>
         /\ step_logger.step = Len(ProgressLines) + 1
         /\ Len(ProgressLines) <= step_logger.num_of_steps
         /\ step_logger.step <= step_logger.num_of_steps + 1
         /\ step_logger.step < 255

\* a RENDER with failed rays has printed all its progress lines and exited
C19_Witness ==
    /\ pc = "exited"
    /\ exit_status = 0
    /\ render_output # None
    /\ render_output.failed_rays > 0
    /\ step_logger.step = step_logger.num_of_steps + 1

====
